---- MODULE Spec2Model ----
(***************************************************************************)
(* A model of package clli of dBitech/go-clli: the parser                  *)
(* Parse/ParseWithOptions, its component validators and the package-level  *)
(* shape probes IsEntityCLLI, IsNonBuildingCLLI and IsCustomerCLLI.        *)
(*                                                                         *)
(* A Go string is a sequence of one-character strings.  A Go pointer or    *)
(* error is a sequence of length 0 (nil) or 1 (the value pointed to).      *)
(***************************************************************************)
EXTENDS Naturals, Integers, Sequences, FiniteSets

\* arg, argOpts, argStrict: the arguments of the calls; call: the function
\* called last; retCLLI, retErr: the (*CLLI, error) a parse returned; retBool:
\* the bool a shape probe returned; retValidation: the error a package-level
\* validator returned
VARIABLES arg, argOpts, argStrict, call, retCLLI, retErr, retBool, retValidation

\* pc, frame: where each goroutine is in its call, and the parameters and
\* local variables of that call; heap: the CLLI objects the calls allocated;
\* usStates, canadianProvinces, cityMappings: the package-level maps
VARIABLES pc, frame, heap, usStates, canadianProvinces, cityMappings

svars ==
  <<arg, argOpts, argStrict, call, retCLLI, retErr, retBool, retValidation>>

gvars == <<pc, frame, heap, usStates, canadianProvinces, cityMappings>>

vars == <<svars, gvars>>

-----------------------------------------------------------------------------
(* Characters *)

UpperSeq ==
  <<"A","B","C","D","E","F","G","H","I","J","K","L","M",
    "N","O","P","Q","R","S","T","U","V","W","X","Y","Z">>

LowerSeq ==
  <<"a","b","c","d","e","f","g","h","i","j","k","l","m",
    "n","o","p","q","r","s","t","u","v","w","x","y","z">>

Letters == {UpperSeq[i] : i \in DOMAIN UpperSeq}

LowerLetters == {LowerSeq[i] : i \in DOMAIN LowerSeq}

Digits == {"0","1","2","3","4","5","6","7","8","9"}

\* the characters r with (r >= 'A' && r <= 'Z') || (r >= '0' && r <= '9')
AlphaNum == Letters \cup Digits

\* the white space strings.TrimSpace removes (the ASCII part used here)
WhiteSpace == {" ", "\t", "\n", "\r"}

-----------------------------------------------------------------------------
(* package strings *)

\* s[lo:hi] of Go: zero-based, hi exclusive
Slice(s, lo, hi) == SubSeq(s, lo + 1, hi)

\* s[lo:] of Go
SliceFrom(s, lo) == SubSeq(s, lo + 1, Len(s))

\* the upper-case letter of each lower-case letter
upperOf ==
  [ch \in LowerLetters |->
     UpperSeq[CHOOSE i \in DOMAIN LowerSeq : LowerSeq[i] = ch]]

ToUpperChar(ch) == IF ch \in LowerLetters THEN upperOf[ch] ELSE ch

ToUpper(s) == [i \in 1..Len(s) |-> ToUpperChar(s[i])]

TrimSpace(s) ==
  LET keep == {i \in 1..Len(s) : s[i] \notin WhiteSpace}
  IN IF keep = {} THEN <<>>
     ELSE SubSeq(s, CHOOSE i \in keep : \A j \in keep : i <= j,
                    CHOOSE i \in keep : \A j \in keep : j <= i)

\* strings.TrimRight(s, " ")
TrimRightSpaces(s) ==
  LET keep == {i \in 1..Len(s) : s[i] # " "}
  IN IF keep = {} THEN <<>>
     ELSE SubSeq(s, 1, CHOOSE i \in keep : \A j \in keep : j <= i)

\* strings.Repeat(ch, n); a count below zero panics in Go and is never passed
Repeat(ch, n) == [i \in 1..n |-> ch]

\* strings.ContainsRune(set, r), set given as the set of its characters
ContainsRune(set, r) == r \in set

-----------------------------------------------------------------------------
(* Types, options and errors *)

CLLITypeUnknown == "Unknown"

CLLITypeEntity == "Entity"

CLLITypeNonBuilding == "NonBuilding"

CLLITypeCustomer == "Customer"

ErrInvalidCLLI == "invalid CLLI format"

ErrInvalidPlace == "invalid place code"

ErrInvalidRegion == "invalid region code"

ErrInvalidSite == "invalid network site code"

ErrInvalidEntity == "invalid entity code"

ErrInvalidLocation == "invalid location code"

ErrEmptyInput == "empty CLLI input"

\* the nil error of a validator
NoError == "nil"

\* &ParseOptions{Strict: true, NormalizeCase: true, TrimWhitespace: true}
DefaultOptions ==
  [Strict |-> TRUE, StrictValidation |-> FALSE,
   NormalizeCase |-> TRUE, TrimWhitespace |-> TRUE]

\* every *ParseOptions a caller can pass: nil, or a pointer to any value
ParseOptions ==
  [Strict : BOOLEAN, StrictValidation : BOOLEAN,
   NormalizeCase : BOOLEAN, TrimWhitespace : BOOLEAN]

\* the error ParseWithOptions returns: fmt.Errorf("%s: %w", clli, &ParseError{...})
ParseError(input, position, field, e) ==
  <<[Prefix |-> input,
     Input |-> input, Position |-> position, Field |-> field, Err |-> e]>>

-----------------------------------------------------------------------------
(* Helper functions for parsing *)

isDigitsOnly(s) == (\A i \in 1..Len(s) : s[i] \in Digits) /\ Len(s) > 0

isAlpha(s) == (\A i \in 1..Len(s) : s[i] \in Letters) /\ Len(s) > 0

isDigits(s) == (\A i \in 1..Len(s) : s[i] \in Digits) /\ Len(s) > 0

\* isDigit with the range check s[0] >= '1': "0" is taken for no digit
isDigit_noZero(s) == Len(s) = 1 /\ s[1] \in Digits \ {"0"}

isDigit(s) == Len(s) = 1 /\ s[1] \in Digits

isValidEntityCode(s) ==
  IF Len(s) < 2 \/ Len(s) > 3 THEN FALSE
  ELSE \A i \in 1..Len(s) : s[i] \in AlphaNum

-----------------------------------------------------------------------------
(* Internal validation functions for CLLI components; each returns its      *)
(* error, NoError for nil                                                   *)

validatePlace(place) ==
  LET trimmed == TrimRightSpaces(place)
  IN IF place = <<>> THEN "place code cannot be empty"
     ELSE IF Len(trimmed) # 4 THEN "place code must be exactly 4 characters"
     ELSE IF \E i \in 1..Len(trimmed) : trimmed[i] \notin Letters
          THEN "place code contains invalid character"
     ELSE NoError

validRegions ==
  { <<"A","L">>, <<"A","K">>, <<"A","Z">>, <<"A","R">>, <<"C","A">>, <<"C","O">>,
    <<"C","T">>, <<"D","E">>, <<"F","L">>, <<"G","A">>, <<"H","I">>, <<"I","D">>,
    <<"I","L">>, <<"I","N">>, <<"I","A">>, <<"K","S">>, <<"K","Y">>, <<"L","A">>,
    <<"M","E">>, <<"M","D">>, <<"M","A">>, <<"M","I">>, <<"M","N">>, <<"M","S">>,
    <<"M","O">>, <<"M","T">>, <<"N","E">>, <<"N","V">>, <<"N","H">>, <<"N","J">>,
    <<"N","M">>, <<"N","Y">>, <<"N","C">>, <<"N","D">>, <<"O","H">>, <<"O","K">>,
    <<"O","R">>, <<"P","A">>, <<"R","I">>, <<"S","C">>, <<"S","D">>, <<"T","N">>,
    <<"T","X">>, <<"U","T">>, <<"V","T">>, <<"V","A">>, <<"W","A">>, <<"W","V">>,
    <<"W","I">>, <<"W","Y">>, <<"D","C">>,
    <<"A","B">>, <<"B","C">>, <<"M","B">>, <<"N","B">>, <<"N","L">>, <<"N","T">>,
    <<"N","S">>, <<"N","U">>, <<"O","N">>, <<"P","E">>, <<"Q","C">>, <<"S","K">>,
    <<"Y","T">> }

\* validateRegion without the table of regions: any 2 letters pass
validateRegion_anyLetters(region) ==
  IF region = <<>> THEN "region code cannot be empty"
  ELSE IF Len(region) # 2 THEN "region code must be exactly 2 characters"
  ELSE IF \E i \in 1..Len(region) : region[i] \notin Letters
       THEN "region code contains invalid character"
  ELSE NoError

validateRegion(region) ==
  IF region = <<>> THEN "region code cannot be empty"
  ELSE IF Len(region) # 2 THEN "region code must be exactly 2 characters"
  ELSE IF \E i \in 1..Len(region) : region[i] \notin Letters
       THEN "region code contains invalid character"
  ELSE IF region \notin validRegions THEN "invalid region code"
  ELSE NoError

validateNetworkSite(site) ==
  IF site = <<>> THEN "network site code cannot be empty"
  ELSE IF Len(site) # 2 THEN "network site code must be exactly 2 characters"
  ELSE IF ~isDigitsOnly(site) /\ ~isAlpha(site)
       THEN "network site code must be either all digits or all letters"
  ELSE IF \E i \in 1..Len(site) : site[i] \notin AlphaNum
       THEN "network site code contains invalid character"
  ELSE NoError

validateNetworkSiteDigitsOnly(site) ==
  IF site = <<>> THEN "network site code cannot be empty"
  ELSE IF Len(site) # 2 THEN "network site code must be exactly 2 characters"
  ELSE IF \E i \in 1..Len(site) : site[i] \notin Digits
       THEN "network site code contains invalid character"
  ELSE NoError

\* validateNetworkSiteAlphanumeric with the character check of
\* validateNetworkSiteDigitsOnly copied into it
validateNetworkSiteAlphanumeric_digits(site) ==
  IF site = <<>> THEN "network site code cannot be empty"
  ELSE IF Len(site) # 2 THEN "network site code must be exactly 2 characters"
  ELSE IF \E i \in 1..Len(site) : site[i] \notin Digits
       THEN "network site code contains invalid character"
  ELSE NoError

validateNetworkSiteAlphanumeric(site) ==
  IF site = <<>> THEN "network site code cannot be empty"
  ELSE IF Len(site) # 2 THEN "network site code must be exactly 2 characters"
  ELSE IF \E i \in 1..Len(site) : site[i] \notin AlphaNum
       THEN "network site code contains invalid character"
  ELSE NoError

\* Table B: two-letter equipment prefixes
tbPrefixes ==
  { <<"M","G">>, <<"S","G">>, <<"C","G">>, <<"D","S">>, <<"R","L">>, <<"P","S">>,
    <<"R","P">>, <<"C","M">>, <<"V","S">>, <<"O","S">>, <<"O","L">>, <<"R","T">>,
    <<"S","W">>, <<"M","S">>, <<"X","C">> }

\* Table E: the codes accepted by enumeration
tableECodes ==
  { <<"F","2","3">>, <<"A","1","2">>, <<"E","4","5">>, <<"K","6","7">>,
    <<"M","8","9">>, <<"P","0","1">>, <<"S","3","4">>, <<"T","5","6">>,
    <<"W","7","8">>, <<"F","A","A">>, <<"A","A","A">>, <<"E","Z","Z">>,
    <<"K","A","1">>, <<"M","2","Z">> }

\* the pattern checks of validateEntityCode on a code of 3 alphanumerics
matchesEntityPattern(code) ==
  \/ Slice(code, 0, 2) \in tbPrefixes
  \/ /\ code[1] \in Digits /\ code[2] \in Digits
     /\ ContainsRune({"1","2","A","Z"}, code[3])
  \/ /\ code[1] \in {"C","B"} \cup Digits
     /\ code[2] \in Digits /\ code[3] = "T"
  \/ code[1] \in Digits /\ code[2] = "G" /\ code[3] = "T"
  \/ code[1] = "Z" /\ code[2] \in Letters /\ code[3] = "Z"
  \/ code[1] = "R" /\ code[2] = "S" /\ code[3] \in Digits
  \/ code[1] = "X" /\ code[2] \in Letters /\ code[3] = "X"
  \/ /\ code[1] = "C" /\ code[2] = "T"
     /\ ContainsRune({"1","2","A","Z"}, code[3])
  \/ /\ code[1] \in Digits
     /\ \/ ContainsRune({"C","D","B","I","N","Q","W","M","V","R","O","L","P",
                         "E","U","T","Z"}, code[2])
        \/ code[2] \in Digits
     /\ code[3] = "B"
  \/ /\ code[1] \in Digits
     /\ ContainsRune({"A","X","C","T","W","D","E","I","N","P","Q"}, code[2])
     /\ code[3] = "D"
  \/ /\ code[1] \in Letters \cup Digits
     /\ ContainsRune({"U","M"}, code[2])
     /\ code[3] = "D"
  \/ code[1] = "Q" /\ code[2] \in Digits /\ code[3] \in Digits
  \/ code \in tableECodes

\* validateEntityCode letting a bare two-letter equipment prefix pass
validateEntityCode_barePrefix(code) ==
  IF code = <<>> THEN "entity code cannot be empty"
  ELSE IF Len(code) = 2 /\ code \in tbPrefixes THEN NoError
  ELSE IF Len(code) # 3 THEN "entity code must be exactly 3 characters"
  ELSE IF ~isValidEntityCode(code) \/ Len(code) # 3
       THEN "invalid entity code pattern"
  ELSE IF matchesEntityPattern(code) THEN NoError
  ELSE "invalid entity code pattern"

validateEntityCode(code) ==
  IF code = <<>> THEN "entity code cannot be empty"
  ELSE IF Len(code) # 3 THEN "entity code must be exactly 3 characters"
  ELSE IF ~isValidEntityCode(code) \/ Len(code) # 3
       THEN "invalid entity code pattern"
  ELSE IF matchesEntityPattern(code) THEN NoError
  ELSE "invalid entity code pattern"

-----------------------------------------------------------------------------
(* ParseWithOptions, in the order of its steps *)

\* "Use default options if nil provided"
optionsOrDefault(opts) == IF opts = <<>> THEN DefaultOptions ELSE opts[1]

\* isEmptyInput comparing the string as received: clli == ""
isEmptyInput_untrimmed(clli) == clli = <<>>

\* "Check for empty input before any processing"
isEmptyInput(clli) == TrimSpace(clli) = <<>>

\* preprocess without the upper-casing
preprocess_trimOnly(clli, o) ==
  IF o.TrimWhitespace THEN TrimSpace(clli) ELSE clli

\* "Preprocess input according to options"
preprocess(clli, o) ==
  LET trimmed == IF o.TrimWhitespace THEN TrimSpace(clli) ELSE clli
  IN IF o.NormalizeCase THEN ToUpper(trimmed) ELSE trimmed

\* lengthViolation with the maximum enforced in strict mode only
lengthViolation_strictMaximum(input, o) ==
  \/ o.Strict /\ Len(input) < 8
  \/ ~o.Strict /\ Len(input) < 4
  \/ o.Strict /\ Len(input) > 15

\* lengthViolation without the minimum of relaxed mode
lengthViolation_noRelaxedMinimum(input, o) ==
  \/ o.Strict /\ Len(input) < 8
  \/ Len(input) > 15

\* "Check overall length constraints first": TRUE when a length check fails
lengthViolation(input, o) ==
  \/ o.Strict /\ Len(input) < 8
  \/ ~o.Strict /\ Len(input) < 4
  \/ Len(input) > 15

\* firstInvalidCharacter with a loop that does not return at the first hit: the
\* offset of the last character outside A-Z, 0-9
firstInvalidCharacter_last(input) ==
  LET bad == {i \in 1..Len(input) : input[i] \notin AlphaNum}
  IN IF bad = {} THEN -1
     ELSE (CHOOSE i \in bad : \A j \in bad : j <= i) - 1

\* the zero-based offset of the first character outside A-Z, 0-9; -1 if none
firstInvalidCharacter(input) ==
  LET bad == {i \in 1..Len(input) : input[i] \notin AlphaNum}
  IN IF bad = {} THEN -1
     ELSE (CHOOSE i \in bad : \A j \in bad : i <= j) - 1

\* place as extracted for validation
placeForValidation(input) ==
  IF Len(input) >= 4 THEN Slice(input, 0, 4)
  ELSE input \o Repeat(" ", 4 - Len(input))

\* region as extracted for validation
regionForValidation(input) ==
  IF Len(input) >= 6 THEN Slice(input, 4, 6)
  ELSE IF Len(input) > 4 THEN SliceFrom(input, 4) \o Repeat(" ", 6 - Len(input))
  ELSE <<>>

\* networkSiteCheck calling validateNetworkSite, which wants 2 digits or 2
\* letters, where the code calls validateNetworkSiteAlphanumeric
networkSiteCheck_strictSite(input) ==
  IF Len(input) >= 8
  THEN LET potentialNetworkSite == Slice(input, 6, 8)
           potentialEntityCode ==
             IF Len(input) > 8 THEN SliceFrom(input, 8) ELSE <<>>
           digitsOnly ==
             \A i \in 1..Len(potentialNetworkSite) :
                potentialNetworkSite[i] \in Digits
       IN IF Len(potentialEntityCode) >= 2 /\ digitsOnly
          THEN validateNetworkSiteDigitsOnly(potentialNetworkSite)
          ELSE validateNetworkSite(potentialNetworkSite)
  ELSE NoError

\* the network site check that precedes classification: its error, or NoError
networkSiteCheck(input) ==
  IF Len(input) >= 8
  THEN LET potentialNetworkSite == Slice(input, 6, 8)
           potentialEntityCode ==
             IF Len(input) > 8 THEN SliceFrom(input, 8) ELSE <<>>
           digitsOnly ==
             \A i \in 1..Len(potentialNetworkSite) :
                potentialNetworkSite[i] \in Digits
       IN IF Len(potentialEntityCode) >= 2 /\ digitsOnly
          THEN validateNetworkSiteDigitsOnly(potentialNetworkSite)
          ELSE validateNetworkSiteAlphanumeric(potentialNetworkSite)
  ELSE NoError

\* newCLLI leaving Original at its zero value
newCLLI_noOriginal(input) ==
  [Original |-> <<>>,
   Place |-> TrimRightSpaces(Slice(input, 0, 4)),
   Region |-> IF Len(input) >= 6 THEN Slice(input, 4, 6)
              ELSE IF Len(input) > 4
                   THEN SliceFrom(input, 4) \o Repeat("X", 6 - Len(input))
              ELSE <<"X","X">>,
   NetworkSite |-> <<>>, EntityCode |-> <<>>,
   LocationCode |-> <<>>, LocationID |-> <<>>,
   CustomerCode |-> <<>>, CustomerID |-> <<>>,
   cliType |-> CLLITypeUnknown,
   valid |-> TRUE]

\* "Create CLLI instance with base fields"
newCLLI(input) ==
  LET actualPlace == Slice(input, 0, 4)
      actualRegion ==
        IF Len(input) >= 6 THEN Slice(input, 4, 6)
        ELSE IF Len(input) > 4
             THEN SliceFrom(input, 4) \o Repeat("X", 6 - Len(input))
        ELSE <<"X","X">>
  IN [Original |-> input,
      Place |-> TrimRightSpaces(actualPlace),
      Region |-> actualRegion,
      NetworkSite |-> <<>>, EntityCode |-> <<>>,
      LocationCode |-> <<>>, LocationID |-> <<>>,
      CustomerCode |-> <<>>, CustomerID |-> <<>>,
      cliType |-> CLLITypeUnknown,
      valid |-> TRUE]

\* isLongCustomerTail asking digits of the whole remainder
isLongCustomerTail_allDigits(remainder) ==
  Len(remainder) = 9 /\ isDigits(remainder)

\* "Check if this is a 15-character Customer CLLI"
isLongCustomerTail(remainder) ==
  Len(remainder) = 9 /\ isDigits(Slice(remainder, 0, 2))

\* "Entity CLLI: PPPPRRNNXXX where NN is digits, XXX is entity code"
isEntityTail(remainder) ==
  /\ Len(remainder) >= 5
  /\ isDigitsOnly(Slice(remainder, 0, 2))
  /\ isValidEntityCode(SliceFrom(remainder, 2))

\* isNonBuildingTail taking remainder[0:2] for the location code
isNonBuildingTail_twoLetters(remainder) ==
  /\ Len(remainder) >= 5
  /\ isAlpha(Slice(remainder, 0, 2))
  /\ isDigits(SliceFrom(remainder, 2))

\* "Non-building CLLI: PPPPRRXNNNN"
isNonBuildingTail(remainder) ==
  /\ Len(remainder) >= 5
  /\ isAlpha(Slice(remainder, 0, 1))
  /\ isDigits(SliceFrom(remainder, 1))

\* isCustomerTail asking the customer code to be the digit 1
isCustomerTail_codeOne(remainder) ==
  /\ Len(remainder) >= 5
  /\ Slice(remainder, 0, 1) = <<"1">>
  /\ isAlpha(Slice(remainder, 1, 2))
  /\ isDigits(SliceFrom(remainder, 2))

\* "Customer CLLI: PPPPRRNCCCCC"
isCustomerTail(remainder) ==
  /\ Len(remainder) >= 5
  /\ isDigit(Slice(remainder, 0, 1))
  /\ isAlpha(Slice(remainder, 1, 2))
  /\ isDigits(SliceFrom(remainder, 2))

\* isBareSiteTail without the special case: an empty remainder only
isBareSiteTail_never(remainder) == Len(remainder) = 0 /\ isDigitsOnly(remainder)

\* "Special case: 8-character CLLI (PPPPRRNN)"
isBareSiteTail(remainder) == Len(remainder) = 2 /\ isDigitsOnly(remainder)

\* classify with the network site set in the non-building branch too
classify_siteInNonBuilding(result, input) ==
  IF Len(input) >= 8
  THEN LET remainder == SliceFrom(input, 6)
       IN IF isLongCustomerTail(remainder)
          THEN [result EXCEPT !.NetworkSite = Slice(remainder, 0, 2),
                              !.EntityCode = SliceFrom(remainder, 2),
                              !.cliType = CLLITypeCustomer]
          ELSE IF isEntityTail(remainder)
          THEN [result EXCEPT !.NetworkSite = Slice(remainder, 0, 2),
                              !.EntityCode = SliceFrom(remainder, 2),
                              !.cliType = CLLITypeEntity]
          ELSE IF isNonBuildingTail(remainder)
          THEN [result EXCEPT !.NetworkSite = Slice(remainder, 0, 2),
                              !.LocationCode = Slice(remainder, 0, 1),
                              !.LocationID = SliceFrom(remainder, 1),
                              !.cliType = CLLITypeNonBuilding]
          ELSE IF isCustomerTail(remainder)
          THEN [result EXCEPT !.CustomerCode = Slice(remainder, 0, 1),
                              !.CustomerID = SliceFrom(remainder, 1),
                              !.cliType = CLLITypeCustomer]
          ELSE IF isBareSiteTail(remainder)
          THEN [result EXCEPT !.NetworkSite = remainder,
                              !.cliType = CLLITypeNonBuilding]
          ELSE IF Len(remainder) >= 2
          THEN [result EXCEPT !.NetworkSite = Slice(remainder, 0, 2),
                              !.EntityCode =
                                 IF Len(remainder) > 2
                                 THEN SliceFrom(remainder, 2) ELSE <<>>,
                              !.cliType = CLLITypeEntity]
          ELSE result
  ELSE [result EXCEPT !.cliType = CLLITypeNonBuilding]

\* "Now determine the type and populate type-specific fields"
classify(result, input) ==
  IF Len(input) >= 8
  THEN LET remainder == SliceFrom(input, 6)
       IN IF isLongCustomerTail(remainder)
          THEN [result EXCEPT !.NetworkSite = Slice(remainder, 0, 2),
                              !.EntityCode = SliceFrom(remainder, 2),
                              !.cliType = CLLITypeCustomer]
          ELSE IF isEntityTail(remainder)
          THEN [result EXCEPT !.NetworkSite = Slice(remainder, 0, 2),
                              !.EntityCode = SliceFrom(remainder, 2),
                              !.cliType = CLLITypeEntity]
          ELSE IF isNonBuildingTail(remainder)
          THEN [result EXCEPT !.LocationCode = Slice(remainder, 0, 1),
                              !.LocationID = SliceFrom(remainder, 1),
                              !.cliType = CLLITypeNonBuilding]
          ELSE IF isCustomerTail(remainder)
          THEN [result EXCEPT !.CustomerCode = Slice(remainder, 0, 1),
                              !.CustomerID = SliceFrom(remainder, 1),
                              !.cliType = CLLITypeCustomer]
          ELSE IF isBareSiteTail(remainder)
          THEN [result EXCEPT !.NetworkSite = remainder,
                              !.cliType = CLLITypeNonBuilding]
          ELSE IF Len(remainder) >= 2
          THEN [result EXCEPT !.NetworkSite = Slice(remainder, 0, 2),
                              !.EntityCode =
                                 IF Len(remainder) > 2
                                 THEN SliceFrom(remainder, 2) ELSE <<>>,
                              !.cliType = CLLITypeEntity]
          ELSE result
  ELSE [result EXCEPT !.cliType = CLLITypeNonBuilding]

\* entityCodeViolation with the upper length bound one too low
entityCodeViolation_shortCode(result) ==
  /\ result.cliType = CLLITypeEntity
  /\ result.EntityCode # <<>>
  /\ \/ Len(result.EntityCode) < 2 \/ Len(result.EntityCode) > 2
     \/ validateEntityCode(result.EntityCode) # NoError

\* "Post-classification validation for entity codes only": TRUE when it fails
entityCodeViolation(result) ==
  /\ result.cliType = CLLITypeEntity
  /\ result.EntityCode # <<>>
  /\ \/ Len(result.EntityCode) < 2 \/ Len(result.EntityCode) > 3
     \/ validateEntityCode(result.EntityCode) # NoError

\* (e *ParseError) Unwrap
Unwrap(e) == e.Err

\* errors.Is(err, target) on the error of a parse: the fmt.Errorf wrapper and
\* the ParseError are no sentinels, the chain ends at the ParseError's Err
Is(err, target) == err # <<>> /\ Unwrap(err[1]) = target

\* Failure wrapping ErrInvalidCLLI whatever the field, but for the empty input
Failure_alwaysInvalidCLLI(clli, position, field, e) ==
  [c |-> <<>>,
   err |-> ParseError(clli, position, field,
                      IF field = "input" THEN e ELSE ErrInvalidCLLI)]

\* the pair (*CLLI, error) returned
Failure(clli, position, field, e) ==
  [c |-> <<>>, err |-> ParseError(clli, position, field, e)]

\* ParseWithOptions with the region validated before the place
ParseWithOptions_regionFirst(clli, opts) ==
  LET o == optionsOrDefault(opts)
      input == preprocess(clli, o)
      result == classify(newCLLI(input), input)
  IN IF isEmptyInput(clli) THEN Failure(clli, 0, "input", ErrEmptyInput)
     ELSE IF lengthViolation(input, o)
          THEN Failure(clli, 0, "length", ErrInvalidCLLI)
     ELSE IF firstInvalidCharacter(input) # -1
          THEN Failure(clli, firstInvalidCharacter(input), "characters",
                       ErrInvalidCLLI)
     ELSE IF Len(input) > 4 /\ validateRegion(regionForValidation(input)) # NoError
          THEN Failure(clli, 4, "region", ErrInvalidRegion)
     ELSE IF validatePlace(placeForValidation(input)) # NoError
          THEN Failure(clli, 0, "place", ErrInvalidPlace)
     ELSE IF networkSiteCheck(input) # NoError
          THEN Failure(clli, 6, "network_site", ErrInvalidSite)
     ELSE IF entityCodeViolation(result)
          THEN Failure(clli, 8, "entity_code", ErrInvalidEntity)
     ELSE [c |-> <<result>>, err |-> <<>>]

ParseWithOptions(clli, opts) ==
  LET o == optionsOrDefault(opts)
      input == preprocess(clli, o)
      result == classify(newCLLI(input), input)
  IN IF isEmptyInput(clli) THEN Failure(clli, 0, "input", ErrEmptyInput)
     ELSE IF lengthViolation(input, o)
          THEN Failure(clli, 0, "length", ErrInvalidCLLI)
     ELSE IF firstInvalidCharacter(input) # -1
          THEN Failure(clli, firstInvalidCharacter(input), "characters",
                       ErrInvalidCLLI)
     ELSE IF validatePlace(placeForValidation(input)) # NoError
          THEN Failure(clli, 0, "place", ErrInvalidPlace)
     ELSE IF Len(input) > 4 /\ validateRegion(regionForValidation(input)) # NoError
          THEN Failure(clli, 4, "region", ErrInvalidRegion)
     ELSE IF networkSiteCheck(input) # NoError
          THEN Failure(clli, 6, "network_site", ErrInvalidSite)
     ELSE IF entityCodeViolation(result)
          THEN Failure(clli, 8, "entity_code", ErrInvalidEntity)
     ELSE [c |-> <<result>>, err |-> <<>>]

Parse(clli) == ParseWithOptions(clli, <<DefaultOptions>>)

-----------------------------------------------------------------------------
(* Package-level validation functions; each returns its error, NoError for  *)
(* nil                                                                      *)

ValidateRegion(region, strict) ==
  IF region = <<>> THEN ErrInvalidRegion
  ELSE validateRegion(IF ~strict THEN ToUpper(TrimSpace(region)) ELSE region)

ValidateEntityCode(code, strict) ==
  IF code = <<>> THEN ErrInvalidEntity
  ELSE validateEntityCode(IF ~strict THEN ToUpper(TrimSpace(code)) ELSE code)

-----------------------------------------------------------------------------
(* Methods of *CLLI *)

\* Type returns the determined type of this CLLI code
Type(c) == c.cliType

\* String returns c.Original
String(c) == c.Original

\* the method (c *CLLI) IsEntityCLLI
CLLI_IsEntityCLLI(c) == c.cliType = CLLITypeEntity

\* the method (c *CLLI) ValidatePlace
CLLI_ValidatePlace(c) == validatePlace(c.Place) = NoError

\* the method (c *CLLI) ValidateRegion
CLLI_ValidateRegion(c) == validateRegion(c.Region) = NoError

\* the method (c *CLLI) ValidateNetworkSite
CLLI_ValidateNetworkSite(c) == validateNetworkSite(c.NetworkSite) = NoError

\* the method (c *CLLI) ValidateEntityCode
CLLI_ValidateEntityCode(c) ==
  IF ~CLLI_IsEntityCLLI(c) THEN TRUE
  ELSE validateEntityCode(c.EntityCode) = NoError

-----------------------------------------------------------------------------
(* Package-level pattern matching functions *)

IsEntityCLLI(clli) ==
  IF clli = <<>> THEN FALSE
  ELSE IF clli # ToUpper(clli) THEN FALSE
  ELSE IF Len(clli) < 8 \/ Len(clli) > 11 THEN FALSE
  ELSE IF Len(clli) < 6 THEN FALSE
  ELSE IF ~isAlpha(Slice(clli, 0, 4)) \/ ~isAlpha(Slice(clli, 4, 6)) THEN FALSE
  ELSE LET remaining == SliceFrom(clli, 6)
       IN /\ Len(remaining) >= 2
          /\ \E i \in 2..5 :
                /\ i <= Len(remaining)
                /\ isDigitsOnly(Slice(remaining, 0, i))
                /\ Len(SliceFrom(remaining, i)) = 3
                /\ isValidEntityCode(SliceFrom(remaining, i))

IsNonBuildingCLLI(clli) ==
  IF clli = <<>> THEN FALSE
  ELSE IF clli # ToUpper(clli) THEN FALSE
  ELSE IF Len(clli) # 11 THEN FALSE
  ELSE IF ~isAlpha(Slice(clli, 0, 4)) \/ ~isAlpha(Slice(clli, 4, 6)) THEN FALSE
  ELSE IF ~isAlpha(Slice(clli, 6, 7)) THEN FALSE
  ELSE IF ~isDigitsOnly(Slice(clli, 7, 11)) THEN FALSE
  ELSE TRUE

\* IsCustomerCLLI without the check that the customer ID begins with a letter
IsCustomerCLLI_anyIdStart(clli) ==
  IF clli = <<>> THEN FALSE
  ELSE IF clli # ToUpper(clli) THEN FALSE
  ELSE IF Len(clli) # 11 THEN FALSE
  ELSE IF ~isAlpha(Slice(clli, 0, 4)) \/ ~isAlpha(Slice(clli, 4, 6)) THEN FALSE
  ELSE IF ~isDigit(Slice(clli, 6, 7)) THEN FALSE
  ELSE IF ~isDigitsOnly(Slice(clli, 8, 11)) THEN FALSE
  ELSE TRUE

IsCustomerCLLI(clli) ==
  IF clli = <<>> THEN FALSE
  ELSE IF clli # ToUpper(clli) THEN FALSE
  ELSE IF Len(clli) # 11 THEN FALSE
  ELSE IF ~isAlpha(Slice(clli, 0, 4)) \/ ~isAlpha(Slice(clli, 4, 6)) THEN FALSE
  ELSE IF ~isDigit(Slice(clli, 6, 7)) THEN FALSE
  ELSE IF ~isAlpha(Slice(clli, 7, 8)) THEN FALSE
  ELSE IF ~isDigitsOnly(Slice(clli, 8, 11)) THEN FALSE
  ELSE TRUE

-----------------------------------------------------------------------------
(* The strings the calls are made on *)

\* the longest trailing segment enumerated over TailChars
MaxShortTail == 5

\* the longest trailing segment enumerated over LongChars (one past the
\* 9 characters of a 15-character identifier)
MaxLongTail == 10

\* the longest run of white space around an identifier
MaxPad == 1

\* the longest blank string
MaxBlank == 3

\* all strings over alphabet of a length in lo..hi
Strings(alphabet, lo, hi) == UNION {[1..n -> alphabet] : n \in lo..hi}

TailChars == {"0", "1", "A", "S"}

LongChars == {"1", "A"}

CodeChars ==
  {"0", "2", "A", "B", "C", "D", "G", "M", "Q", "R", "S", "T", "X", "Z"}

MPLS == <<"M","P","L","S">>

MN == <<"M","N">>

\* place + region + every trailing segment of the two alphabets
ShapeInputs ==
  {MPLS \o MN \o t :
     t \in Strings(TailChars, 0, MaxShortTail)
            \cup Strings(LongChars, MaxShortTail + 1, MaxLongTail)}

\* place + region + network site + every 3-character code over CodeChars
CodeInputs ==
  {MPLS \o MN \o site \o code :
     site \in {<<"0","1">>, <<"M","S">>}, code \in [1..3 -> CodeChars]}

PlaceSample ==
  {MPLS, <<"C","H","C","G">>, <<"C","H","1","G">>, <<"C","H","C","9">>}

RegionSample == {MN, <<"O","N">>, <<"Z","Z">>, <<"M","1">>, <<"1","L">>}

TailSample ==
  { <<>>, <<"1">>, <<"1","2">>, <<"M","S">>, <<"M","1">>, <<"0","1","D">>,
    <<"0","1","D","S">>, <<"0","1","D","S","0">>, <<"M","S","D","S","1">>,
    <<"0","1","X","Y","Z">>, <<"M","S","X","Y","Z">>,
    <<"B","1","2","3","4">>, <<"1","A","2","3","4">>,
    <<"0","1","!","S","0">>, <<"0","1","D","S","0","X">>,
    <<"0","1","1","2","3","4","5","6","7">>,
    <<"0","1","D","S","0","E","X","T","R","A">> }

\* every sampled place and region, valid or not, before the sampled tails
FieldInputs ==
  {p \o r \o t : p \in PlaceSample, r \in RegionSample, t \in TailSample}

\* the identifiers cut short, down to the empty string
ShortInputs ==
  {SubSeq(s, 1, n) :
     s \in {p \o r : p \in PlaceSample, r \in RegionSample}, n \in 0..5}

\* the lower-case letter of each upper-case letter
lowerOf ==
  [ch \in Letters |-> LowerSeq[CHOOSE i \in DOMAIN UpperSeq : UpperSeq[i] = ch]]

ToLower(s) == [i \in 1..Len(s) |-> IF s[i] \in Letters THEN lowerOf[s[i]] ELSE s[i]]

\* an identifier in upper, lower and mixed case
CaseVariants(s) ==
  {s, ToLower(s), ToLower(SubSeq(s, 1, 5)) \o SubSeq(s, 6, Len(s))}

\* the sampled identifiers in every case variant, inside white space
PaddedInputs ==
  {l \o body \o r :
     l \in Strings(WhiteSpace, 0, MaxPad),
     r \in Strings({" "}, 0, MaxPad),
     body \in UNION {CaseVariants(MPLS \o MN \o t) : t \in TailSample}}

\* lengths at which an untrimmed blank string passes, or just fails, a length
\* check of ParseWithOptions
BlankLengths == {4, 8, 11, 16}

\* the blank strings, and white space inside an identifier
BlankInputs ==
  Strings(WhiteSpace, 0, MaxBlank)
    \cup {Repeat(w, n) : w \in WhiteSpace, n \in BlankLengths}
    \cup {MPLS \o <<w>> \o MN \o <<"0","1">> : w \in WhiteSpace}

\* every pair of letters: the region codes, recognized or not
LetterPairs == [1..2 -> Letters]

\* a place, every pair of letters as its region, and a network site
RegionInputs == {MPLS \o r \o <<"0","1">> : r \in LetterPairs}

\* every 3-character code over CodeChars
Codes == [1..3 -> CodeChars]

\* codes of the form of Table E, and codes just outside it
TableEInputs ==
  {<<a, b, c>> : a \in {"A", "F", "P", "G"},
                 b \in {"A", "G", "2", "9"},
                 c \in {"0", "3", "A", "B", "Z"}}

\* the components the package-level validators are called on, some of them in
\* lower case
ComponentInputs ==
  LetterPairs \cup Codes \cup TableEInputs
    \cup {ToLower(r) : r \in {MN, <<"Z","Z">>}}
    \cup {ToLower(c) : c \in {<<"D","S","0">>, <<"A","B","C">>}}

Inputs ==
  ShapeInputs \cup CodeInputs \cup FieldInputs \cup ShortInputs
    \cup PaddedInputs \cup BlankInputs \cup RegionInputs \cup ComponentInputs

\* nil, or a pointer to any ParseOptions value
OptionPointers == {<<>>} \cup {<<o>> : o \in ParseOptions}

-----------------------------------------------------------------------------
(* The goroutines and the memory they work in *)

\* the goroutines that call the package at the same time
numGoroutines == 2

Goroutines == 1..numGoroutines

\* the addresses a CLLI object can be allocated at, and the nil pointer
Addresses == 1..numGoroutines

nil == 0

\* the 50 states of the United States and the District of Columbia
USRegions ==
  { <<"A","L">>, <<"A","K">>, <<"A","Z">>, <<"A","R">>, <<"C","A">>, <<"C","O">>,
    <<"C","T">>, <<"D","E">>, <<"F","L">>, <<"G","A">>, <<"H","I">>, <<"I","D">>,
    <<"I","L">>, <<"I","N">>, <<"I","A">>, <<"K","S">>, <<"K","Y">>, <<"L","A">>,
    <<"M","E">>, <<"M","D">>, <<"M","A">>, <<"M","I">>, <<"M","N">>, <<"M","S">>,
    <<"M","O">>, <<"M","T">>, <<"N","E">>, <<"N","V">>, <<"N","H">>, <<"N","J">>,
    <<"N","M">>, <<"N","Y">>, <<"N","C">>, <<"N","D">>, <<"O","H">>, <<"O","K">>,
    <<"O","R">>, <<"P","A">>, <<"R","I">>, <<"S","C">>, <<"S","D">>, <<"T","N">>,
    <<"T","X">>, <<"U","T">>, <<"V","T">>, <<"V","A">>, <<"W","A">>, <<"W","V">>,
    <<"W","I">>, <<"W","Y">>, <<"D","C">> }

\* the 13 provinces and territories of Canada
CanadianRegions ==
  { <<"A","B">>, <<"B","C">>, <<"M","B">>, <<"N","B">>, <<"N","L">>, <<"N","T">>,
    <<"N","S">>, <<"N","U">>, <<"O","N">>, <<"P","E">>, <<"Q","C">>, <<"S","K">>,
    <<"Y","T">> }

\* "Common city mappings for major CLLI place codes": place -> region -> city
CityMappings ==
  {
    [place |-> <<"C","H","C","G">>, region |-> <<"I","L">>,
     city |-> "Chicago"],
    [place |-> <<"N","Y","C","M">>, region |-> <<"N","Y">>,
     city |-> "New York City"],
    [place |-> <<"L","S","A","N">>, region |-> <<"C","A">>,
     city |-> "Los Angeles"],
    [place |-> <<"D","L","L","S">>, region |-> <<"T","X">>,
     city |-> "Dallas"],
    [place |-> <<"H","S","T","X">>, region |-> <<"T","X">>,
     city |-> "Houston"],
    [place |-> <<"P","H","L","A">>, region |-> <<"P","A">>,
     city |-> "Philadelphia"],
    [place |-> <<"P","H","N","X">>, region |-> <<"A","Z">>,
     city |-> "Phoenix"],
    [place |-> <<"S","N","A","N">>, region |-> <<"T","X">>,
     city |-> "San Antonio"],
    [place |-> <<"S","N","D","G">>, region |-> <<"C","A">>,
     city |-> "San Diego"],
    [place |-> <<"M","P","L","S">>, region |-> <<"M","N">>,
     city |-> "Minneapolis"],
    [place |-> <<"T","O","R","O">>, region |-> <<"O","N">>,
     city |-> "Toronto"],
    [place |-> <<"M","T","R","L">>, region |-> <<"Q","C">>,
     city |-> "Montreal"],
    [place |-> <<"V","A","N","C","V","R">>, region |-> <<"B","C">>,
     city |-> "Vancouver"],
    [place |-> <<"C","G","R","Y">>, region |-> <<"A","B">>,
     city |-> "Calgary"]
  }

\* the zero value CLLI{}
ZeroCLLI ==
  [Original |-> <<>>, Place |-> <<>>, Region |-> <<>>,
   NetworkSite |-> <<>>, EntityCode |-> <<>>,
   LocationCode |-> <<>>, LocationID |-> <<>>,
   CustomerCode |-> <<>>, CustomerID |-> <<>>,
   cliType |-> CLLITypeUnknown,
   valid |-> FALSE]

\* the parameters clli and opts of a call of ParseWithOptions, its local
\* variables input and result, what it returned, and what the caller got
\* from the methods of the record
NoFrame ==
  [clli |-> <<>>, opts |-> <<>>, input |-> <<>>, result |-> nil,
   ret |-> <<>>, seen |-> <<>>]

\* no goroutine has called yet; the package is initialized
PackageInitialized ==
  /\ pc = [g \in Goroutines |-> "idle"]
  /\ frame = [g \in Goroutines |-> NoFrame]
  /\ heap = [a \in Addresses |-> ZeroCLLI]
  /\ usStates = USRegions
  /\ canadianProvinces = CanadianRegions
  /\ cityMappings = CityMappings

-----------------------------------------------------------------------------
(* The calls.  Every function of the package is pure: a behaviour is one    *)
(* call on one string, made while no call has been made on it (call =       *)
(* "none"), and the state after it holds what the call returned.            *)

Init ==
  /\ arg \in Inputs
  /\ argOpts = <<>>
  /\ argStrict = <<>>
  /\ call = "none"
  /\ retCLLI = <<>>
  /\ retErr = <<>>
  /\ retBool = <<>>
  /\ retValidation = <<>>
  /\ PackageInitialized

CallParse ==
  /\ call = "none"
  /\ call' = "Parse"
  /\ argOpts' = <<>>
  /\ LET r == Parse(arg) IN retCLLI' = r.c /\ retErr' = r.err
  /\ retBool' = <<>>
  /\ UNCHANGED <<arg, argStrict, retValidation>>
  /\ UNCHANGED gvars

CallParseWithOptions ==
  /\ call = "none"
  /\ \E o \in OptionPointers :
       /\ call' = "ParseWithOptions"
       /\ argOpts' = o
       /\ LET r == ParseWithOptions(arg, o) IN retCLLI' = r.c /\ retErr' = r.err
       /\ retBool' = <<>>
       /\ UNCHANGED <<arg, argStrict, retValidation>>
       /\ UNCHANGED gvars

CallIsEntityCLLI ==
  /\ call = "none"
  /\ call' = "IsEntityCLLI"
  /\ retBool' = <<IsEntityCLLI(arg)>>
  /\ argOpts' = <<>> /\ retCLLI' = <<>> /\ retErr' = <<>>
  /\ UNCHANGED <<arg, argStrict, retValidation>>
  /\ UNCHANGED gvars

CallIsNonBuildingCLLI ==
  /\ call = "none"
  /\ call' = "IsNonBuildingCLLI"
  /\ retBool' = <<IsNonBuildingCLLI(arg)>>
  /\ argOpts' = <<>> /\ retCLLI' = <<>> /\ retErr' = <<>>
  /\ UNCHANGED <<arg, argStrict, retValidation>>
  /\ UNCHANGED gvars

CallIsCustomerCLLI ==
  /\ call = "none"
  /\ call' = "IsCustomerCLLI"
  /\ retBool' = <<IsCustomerCLLI(arg)>>
  /\ argOpts' = <<>> /\ retCLLI' = <<>> /\ retErr' = <<>>
  /\ UNCHANGED <<arg, argStrict, retValidation>>
  /\ UNCHANGED gvars

CallValidateRegion ==
  /\ call = "none"
  /\ \E strict \in BOOLEAN :
       /\ call' = "ValidateRegion"
       /\ argStrict' = <<strict>>
       /\ retValidation' = <<ValidateRegion(arg, strict)>>
       /\ UNCHANGED <<arg, argOpts, retCLLI, retErr, retBool>>
       /\ UNCHANGED gvars

CallValidateEntityCode ==
  /\ call = "none"
  /\ \E strict \in BOOLEAN :
       /\ call' = "ValidateEntityCode"
       /\ argStrict' = <<strict>>
       /\ retValidation' = <<ValidateEntityCode(arg, strict)>>
       /\ UNCHANGED <<arg, argOpts, retCLLI, retErr, retBool>>
       /\ UNCHANGED gvars

Next ==
  \/ CallParse
  \/ CallParseWithOptions
  \/ CallIsEntityCLLI
  \/ CallIsNonBuildingCLLI
  \/ CallIsCustomerCLLI
  \/ CallValidateRegion
  \/ CallValidateEntityCode

Spec == Init /\ [][Next]_vars

-----------------------------------------------------------------------------
(* Properties of Parse: the shape and the fields of the record *)

\* Parse returned a record and no error
Succeeded == retCLLI # <<>> /\ retErr = <<>>

\* s begins with 4 letters and a recognized region code
ValidPlaceAndRegion(s) ==
  /\ Len(s) >= 6
  /\ \A i \in 1..4 : s[i] \in Letters
  /\ Slice(s, 4, 6) \in validRegions

\* a 3-character code the entity-code tables accept
TableValid(code) == Len(code) = 3 /\ validateEntityCode(code) = NoError

\* PPPPRRNNXXX: 2 digits and a table-valid entity code
EntityForm(s) ==
  /\ Len(s) = 11 /\ ValidPlaceAndRegion(s)
  /\ s[7] \in Digits /\ s[8] \in Digits
  /\ TableValid(Slice(s, 8, 11))

NonBuildingForm(s) ==
  /\ Len(s) = 11 /\ ValidPlaceAndRegion(s)
  /\ s[7] \in Letters
  /\ \A i \in 8..11 : s[i] \in Digits

\* C2: Parse of 4 letters, a recognized region, a letter L and 4 digits NNNN
\* succeeds with shape NonBuilding, locationCode = L, locationId = NNNN and
\* networkSite, entityCode, customerCode and customerId empty.
C2_NonBuildingParsed ==
  (call = "Parse" /\ NonBuildingForm(arg)) =>
     /\ Succeeded
     /\ retCLLI[1].cliType = CLLITypeNonBuilding
     /\ retCLLI[1].LocationCode = Slice(arg, 6, 7)
     /\ retCLLI[1].LocationID = Slice(arg, 7, 11)
     /\ retCLLI[1].NetworkSite = <<>> /\ retCLLI[1].EntityCode = <<>>
     /\ retCLLI[1].CustomerCode = <<>> /\ retCLLI[1].CustomerID = <<>>

\* a non-building identifier was parsed
C2_Witness ==
  /\ call = "Parse" /\ NonBuildingForm(arg)
  /\ Succeeded /\ retCLLI[1].LocationID = <<"0","0","0","0">>

\* PPPPRRDLddd: a digit, a letter and 3 digits
CustomerForm(s) ==
  /\ Len(s) = 11 /\ ValidPlaceAndRegion(s)
  /\ s[7] \in Digits /\ s[8] \in Letters
  /\ \A i \in 9..11 : s[i] \in Digits

\* C3: Parse of 4 letters, a recognized region, a digit D, a letter L and 3
\* digits ddd succeeds with shape Customer, customerCode = D and
\* customerId = L followed by ddd.
C3_CustomerParsed ==
  (call = "Parse" /\ CustomerForm(arg)) =>
     /\ Succeeded
     /\ retCLLI[1].cliType = CLLITypeCustomer
     /\ retCLLI[1].CustomerCode = Slice(arg, 6, 7)
     /\ retCLLI[1].CustomerID = Slice(arg, 7, 11)
     /\ Len(retCLLI[1].CustomerID) = 4

\* a customer identifier with customer code 0 was parsed
C3_Witness ==
  /\ call = "Parse" /\ CustomerForm(arg)
  /\ Succeeded /\ retCLLI[1].CustomerCode = <<"0">>

\* PPPPRRNN: 2 digits and nothing else
BareSiteForm(s) ==
  /\ Len(s) = 8 /\ ValidPlaceAndRegion(s)
  /\ s[7] \in Digits /\ s[8] \in Digits

\* C4: Parse of 4 letters, a recognized region and 2 digits succeeds with
\* shape NonBuilding (not Entity), networkSite = the 2 digits, and
\* entityCode, locationCode, locationId, customerCode, customerId empty.
C4_BareSiteIsNonBuilding ==
  (call = "Parse" /\ BareSiteForm(arg)) =>
     /\ Succeeded
     /\ retCLLI[1].cliType = CLLITypeNonBuilding
     /\ retCLLI[1].NetworkSite = Slice(arg, 6, 8)
     /\ retCLLI[1].EntityCode = <<>>
     /\ retCLLI[1].LocationCode = <<>> /\ retCLLI[1].LocationID = <<>>
     /\ retCLLI[1].CustomerCode = <<>> /\ retCLLI[1].CustomerID = <<>>

\* an 8-character identifier ending in 2 digits was parsed
C4_Witness ==
  /\ call = "Parse" /\ BareSiteForm(arg)
  /\ Succeeded /\ retCLLI[1].NetworkSite = <<"0","1">>

\* PPPPRRNN + any 7 alphanumeric characters
LongCustomerForm(s) ==
  /\ Len(s) = 15 /\ ValidPlaceAndRegion(s)
  /\ s[7] \in Digits /\ s[8] \in Digits
  /\ \A i \in 9..15 : s[i] \in AlphaNum

\* C5: Parse of 4 letters, a recognized region, 2 digits and any 7
\* alphanumeric characters succeeds with shape Customer, networkSite = the
\* 2 digits and entityCode = the last 7 characters, whatever the entity-code
\* grammar says of them.
C5_LongCustomerParsed ==
  (call = "Parse" /\ LongCustomerForm(arg)) =>
     /\ Succeeded
     /\ retCLLI[1].cliType = CLLITypeCustomer
     /\ retCLLI[1].NetworkSite = Slice(arg, 6, 8)
     /\ retCLLI[1].EntityCode = Slice(arg, 8, 15)

\* a 15-character identifier was parsed although the validator rejects its
\* 7-character code, which holds letters
C5_Witness ==
  /\ call = "Parse" /\ LongCustomerForm(arg) /\ Succeeded
  /\ validateEntityCode(retCLLI[1].EntityCode) # NoError
  /\ \E i \in 1..7 : retCLLI[1].EntityCode[i] \in Letters

\* PPPPRRLLXXX: 2 letters and a table-valid entity code
LetterSiteForm(s) ==
  /\ Len(s) = 11 /\ ValidPlaceAndRegion(s)
  /\ s[7] \in Letters /\ s[8] \in Letters
  /\ TableValid(Slice(s, 8, 11))

-----------------------------------------------------------------------------
(* Properties of the shape probes *)

\* the shape probes that return true for s
ShapesMatched(s) ==
  {p \in {"IsEntityCLLI", "IsNonBuildingCLLI", "IsCustomerCLLI"} :
     \/ p = "IsEntityCLLI" /\ IsEntityCLLI(s)
     \/ p = "IsNonBuildingCLLI" /\ IsNonBuildingCLLI(s)
     \/ p = "IsCustomerCLLI" /\ IsCustomerCLLI(s)}

\* C7: for every input at most one of IsEntityCLLI, IsNonBuildingCLLI and
\* IsCustomerCLLI returns true: when the probe called returned true, the
\* other two return false for the same string.
C7_ProbesExclusive ==
  (call \in {"IsEntityCLLI", "IsNonBuildingCLLI", "IsCustomerCLLI"}
     /\ retBool = <<TRUE>>) => ShapesMatched(arg) = {call}

\* a probe returned true for a string of 5 trailing digits, which has the
\* length and the first digit of the customer shape too
C7_Witness ==
  /\ call = "IsEntityCLLI" /\ retBool = <<TRUE>>
  /\ isDigits(SliceFrom(arg, 6))

\* the shape a successful parse gave the record is the one shape probe that
\* returns true for the string
ProbesAgreeWith(t, s) ==
  /\ IsEntityCLLI(s) <=> t = CLLITypeEntity
  /\ IsNonBuildingCLLI(s) <=> t = CLLITypeNonBuilding
  /\ IsCustomerCLLI(s) <=> t = CLLITypeCustomer

\* C8: the shape probes agree with Parse: for every input on which Parse
\* succeeds with shape S, the probe for S returns true for that input and
\* the other two probes return false.
C8_ProbesAgreeWithParse ==
  (call = "Parse" /\ Succeeded) => ProbesAgreeWith(retCLLI[1].cliType, arg)

\* an upper-case string of 4 letters, 2 letters and a network site of 2
\* letters or 2 digits, alone or before a table-valid entity code
EntityProbeForm(s) ==
  /\ Len(s) \in {8, 11}
  /\ isAlpha(Slice(s, 0, 4)) /\ isAlpha(Slice(s, 4, 6))
  /\ isAlpha(Slice(s, 6, 8)) \/ isDigits(Slice(s, 6, 8))
  /\ Len(s) = 11 => TableValid(Slice(s, 8, 11))

\* C9: IsEntityCLLI returns true for every upper-case string of 4 letters,
\* 2 letters and a 2-character network site (2 letters or 2 digits),
\* optionally followed by a table-valid 3-character entity code.
C9_EntityProbeAccepts ==
  (call = "IsEntityCLLI" /\ EntityProbeForm(arg)) => retBool = <<TRUE>>

-----------------------------------------------------------------------------
(* Properties of Parse: failures *)

\* s is empty or made of white space only
Blank(s) == \A i \in 1..Len(s) : s[i] \in WhiteSpace

\* the call failed with the given field and sentinel, and returned no record
FailedWith(field, sentinel) ==
  /\ retCLLI = <<>>
  /\ Len(retErr) = 1
  /\ retErr[1].Field = field
  /\ retErr[1].Err = sentinel

\* C10: under every configuration, nil options included, Parse and
\* ParseWithOptions of the empty string or of white space only return no
\* record and fail with field "input" wrapping ErrEmptyInput, not with a
\* length or character violation.
C10_BlankIsEmptyInput ==
  (call \in {"Parse", "ParseWithOptions"} /\ Blank(arg)) =>
     FailedWith("input", ErrEmptyInput)

\* white space was parsed with TrimWhitespace disabled in relaxed mode, where
\* the untrimmed string passes the length check
C10_Witness ==
  /\ call = "ParseWithOptions" /\ Blank(arg) /\ Len(arg) >= 4
  /\ argOpts # <<>> /\ ~argOpts[1].TrimWhitespace /\ ~argOpts[1].Strict
  /\ FailedWith("input", ErrEmptyInput)

\* the options in force in the call made: the defaults for Parse and for nil
ActiveOptions == optionsOrDefault(argOpts)

\* the string after the trimming and the upper-casing the options ask for
NormalizedArg == preprocess(arg, ActiveOptions)

\* a length below 8 in strict mode, below 4 in relaxed mode, or above 15
LengthOutOfRange(n, strict) ==
  \/ n > 15
  \/ strict /\ n < 8
  \/ ~strict /\ n < 4

\* C11: for every non-blank input, Parse and ParseWithOptions fail with field
\* "length" wrapping ErrInvalidCLLI exactly when the normalized length is
\* below 8 in strict mode, below 4 in relaxed mode, or above 15; an input of
\* normalized length 8 to 15 never fails with field "length".
C11_LengthViolation ==
  (call \in {"Parse", "ParseWithOptions"} /\ ~Blank(arg)) =>
     (FailedWith("length", ErrInvalidCLLI)
        <=> LengthOutOfRange(Len(NormalizedArg), ActiveOptions.Strict))

\* a string of 4 to 7 characters after trimming, which strict mode rejects for
\* its length, was parsed in relaxed mode and did not fail for its length
C11_Witness ==
  /\ call = "ParseWithOptions" /\ ~Blank(arg)
  /\ argOpts # <<>> /\ ~argOpts[1].Strict /\ argOpts[1].TrimWhitespace
  /\ Len(arg) > Len(NormalizedArg) /\ Len(NormalizedArg) \in 4..7
  /\ ~FailedWith("length", ErrInvalidCLLI)

\* the normalized string holds a character outside A-Z, 0-9
HasInvalidCharacter(s) == \E i \in 1..Len(s) : s[i] \notin AlphaNum

\* the zero-based offset of the first character of s outside A-Z, 0-9
FirstInvalidOffset(s) ==
  CHOOSE k \in 0..(Len(s) - 1) :
    /\ s[k + 1] \notin AlphaNum
    /\ \A j \in 1..k : s[j] \in AlphaNum

\* the call failed with field "characters" at the first invalid character
FailedAtFirstInvalidCharacter ==
  /\ FailedWith("characters", ErrInvalidCLLI)
  /\ retErr[1].Position = FirstInvalidOffset(NormalizedArg)

\* C12 as stated: every non-blank input whose normalized form holds a
\* character outside A-Z, 0-9 fails with field "characters" at the offset of
\* the first such character, whatever other defect the input has.
C12_InvalidCharacterAlwaysReported ==
  (call \in {"Parse", "ParseWithOptions"} /\ ~Blank(arg)
     /\ HasInvalidCharacter(NormalizedArg)) => FailedAtFirstInvalidCharacter

\* C12 as amended: every non-blank input whose normalized form has a length
\* the mode allows and holds a character outside A-Z, 0-9 fails with field
\* "characters" at the offset of the first such character, whatever
\* structural field the character falls in and whatever defect the place,
\* region, network site or entity code has.
C12_InvalidCharacterReported ==
  (call \in {"Parse", "ParseWithOptions"} /\ ~Blank(arg)
     /\ ~LengthOutOfRange(Len(NormalizedArg), ActiveOptions.Strict)
     /\ HasInvalidCharacter(NormalizedArg)) => FailedAtFirstInvalidCharacter

\* a string with a digit in its place code, an unrecognized region and an
\* invalid character in its trailing segment failed for the character
C12_Witness ==
  /\ call = "Parse" /\ Len(arg) = 11 /\ NormalizedArg = arg
  /\ validatePlace(Slice(arg, 0, 4)) # NoError
  /\ validateRegion(Slice(arg, 4, 6)) # NoError
  /\ FailedAtFirstInvalidCharacter /\ retErr[1].Position = 8

-----------------------------------------------------------------------------
(* Properties of Parse: normalization *)

\* the place, region, shape and trailing fields of a record
Components(c) ==
  <<c.Place, c.Region, c.cliType, c.NetworkSite, c.EntityCode,
    c.LocationCode, c.LocationID, c.CustomerCode, c.CustomerID>>

\* what a parse returned, but for the error and the original string: no
\* record, or the components of the record
Outcome(r) == IF r.c = <<>> THEN <<>> ELSE <<Components(r.c[1])>>

\* the white space put before and after a string
PadSample == {<<>>, <<" ">>, <<"\t">>, <<" ", "\n">>}

\* s in upper case, in lower case, and inside white space
CaseAndPaddingVariants(s) ==
  {ToUpper(s), ToLower(s)} \cup {l \o s \o r : l \in PadSample, r \in PadSample}

\* C13: under the default configuration Parse is case- and
\* padding-insensitive: Parse of x, of x in upper case, of x in lower case
\* and of x inside white space all fail, or all succeed with the same place,
\* region, shape and trailing fields.
C13_CaseAndPaddingInsensitive ==
  call = "Parse" =>
     \A v \in CaseAndPaddingVariants(arg) :
        Outcome(Parse(v)) = Outcome([c |-> retCLLI, err |-> retErr])

\* a padded identifier holding lower-case letters was parsed to an entity
C13_Witness ==
  /\ call = "Parse" /\ Succeeded
  /\ arg # TrimSpace(arg) /\ TrimSpace(arg) # ToUpper(TrimSpace(arg))
  /\ retCLLI[1].cliType = CLLITypeEntity
  /\ retCLLI[1].EntityCode = <<"D","S","0">>

-----------------------------------------------------------------------------
(* Properties of the entity-code and region validators *)

\* a code of 2 or 3 characters of A-Z, 0-9
RelaxedCode(code) ==
  Len(code) \in {2, 3} /\ \A i \in 1..Len(code) : code[i] \in AlphaNum

\* 4 letters, a recognized region, 2 digits and a code of 2 or 3 alphanumerics
RelaxedEntityForm(s) ==
  /\ Len(s) \in {10, 11} /\ ValidPlaceAndRegion(s)
  /\ s[7] \in Digits /\ s[8] \in Digits
  /\ RelaxedCode(SliceFrom(s, 8))

\* C15: in relaxed mode any entity code of 2 or 3 alphanumerics is accepted
\* without grammar checking: ValidateEntityCode(code, false) returns no error
\* for every such code, and ParseWithOptions with Strict = false succeeds on
\* an otherwise valid entity identifier whose code is any such string.
C15_RelaxedAcceptsAnyCode ==
  /\ (call = "ValidateEntityCode" /\ argStrict = <<FALSE>> /\ RelaxedCode(arg))
        => retValidation = <<NoError>>
  /\ (call = "ParseWithOptions" /\ argOpts # <<>> /\ ~ActiveOptions.Strict
        /\ RelaxedEntityForm(NormalizedArg)) => Succeeded

\* letters excluding B, D, I, O, T, U, W, Y, and the digits
X1 == (Letters \ {"B","D","I","O","T","U","W","Y"}) \cup Digits

\* letters excluding G, and the digits
X2 == (Letters \ {"G"}) \cup Digits

\* the twelve sub-grammars of the entity-code grammar, on 3 alphanumerics
MatchesEntityGrammar(code) ==
  \/ /\ \/ Slice(code, 0, 2) \in tbPrefixes
        \/ code[1] \in Digits /\ code[2] \in Digits
     /\ code[3] \in AlphaNum
  \/ code[1] \in {"C","B"} \cup Digits /\ code[2] \in Digits /\ code[3] = "T"
  \/ code[1] \in Digits /\ code[2] = "G" /\ code[3] = "T"
  \/ code[1] = "Z" /\ code[2] \in Letters /\ code[3] = "Z"
  \/ code[1] = "R" /\ code[2] = "S" /\ code[3] \in Digits
  \/ code[1] = "X" /\ code[2] \in Letters /\ code[3] = "X"
  \/ code[1] = "C" /\ code[2] = "T" /\ code[3] \in Digits \cup {"1","2","A","Z"}
  \/ /\ code[1] \in Digits
     /\ code[2] \in {"C","D","B","I","N","Q","W","M","V","R","O","L","P",
                     "E","U","T","Z"} \cup Digits
     /\ code[3] = "B"
  \/ /\ code[1] \in Digits
     /\ code[2] \in {"A","X","C","T","W","D","E","I","N","P","Q"}
     /\ code[3] = "D"
  \/ code[1] \in AlphaNum /\ code[2] \in {"U","M"} /\ code[3] = "D"
  \/ code[1] = "Q" /\ code[2] \in Digits /\ code[3] \in Digits
  \/ code \in tableECodes

\* C16: in strict mode ValidateEntityCode accepts a code of 3 upper-case
\* alphanumerics if and only if it matches at least one of the twelve
\* sub-grammars of the entity-code grammar.
C16_StrictGrammar ==
  (call = "ValidateEntityCode" /\ argStrict = <<TRUE>>
     /\ Len(arg) = 3 /\ \A i \in 1..3 : arg[i] \in AlphaNum) =>
     (retValidation = <<NoError>> <=> MatchesEntityGrammar(arg))

\* [FAEKMPSTW][x2][x1]: the documented pattern of Table E
TableEForm(code) ==
  /\ Len(code) = 3
  /\ code[1] \in {"F","A","E","K","M","P","S","T","W"}
  /\ code[2] \in X2
  /\ code[3] \in X1

\* C17: in strict mode ValidateEntityCode accepts every non-switching code of
\* the documented pattern of Table E: one of F, A, E, K, M, P, S, T, W, then
\* any digit or letter but G, then any digit or letter but B, D, I, O, T, U,
\* W, Y.
C17_TableEAccepted ==
  (call = "ValidateEntityCode" /\ argStrict = <<TRUE>> /\ TableEForm(arg)) =>
     retValidation = <<NoError>>

\* 8 to 15 characters of A-Z, 0-9 beginning with 4 letters and 2 letters
LetterPlaceAndRegion(s) ==
  /\ Len(s) \in 8..15 /\ ~HasInvalidCharacter(s)
  /\ isAlpha(Slice(s, 0, 4)) /\ isAlpha(Slice(s, 4, 6))

\* C18: region codes are validated by membership: ValidateRegion(r, true)
\* returns no error if and only if r is one of the 51 codes of the United
\* States or the 13 codes of Canada, and Parse of an input of valid length
\* and alphabet with a valid place whose characters 5-6 are a pair of letters
\* outside that set fails with field "region" wrapping ErrInvalidRegion.
C18_RegionMembership ==
  /\ Cardinality(USRegions) = 51 /\ Cardinality(CanadianRegions) = 13
  /\ (call = "ValidateRegion" /\ argStrict = <<TRUE>>) =>
        (retValidation = <<NoError>>
           <=> arg \in USRegions \cup CanadianRegions)
  /\ (call = "Parse" /\ LetterPlaceAndRegion(NormalizedArg)
        /\ Slice(NormalizedArg, 4, 6) \notin USRegions \cup CanadianRegions)
        => FailedWith("region", ErrInvalidRegion)

\* an identifier whose region is the unrecognized pair PR was parsed and
\* failed for its region, at offset 4
C18_Witness ==
  /\ call = "Parse" /\ LetterPlaceAndRegion(arg)
  /\ Slice(arg, 4, 6) = <<"P","R">>
  /\ FailedWith("region", ErrInvalidRegion) /\ retErr[1].Position = 4

-----------------------------------------------------------------------------
(* Properties of the options and of the record's validators *)

\* C19: StrictValidation is an alias of Strict: for every input,
\* ParseWithOptions with StrictValidation = true and Strict = false returns
\* what it returns with Strict = true and the other flags equal.
C19_StrictValidationIsStrict ==
  (call = "ParseWithOptions" /\ argOpts # <<>>
     /\ argOpts[1].StrictValidation /\ ~argOpts[1].Strict) =>
     LET strict == ParseWithOptions(arg, <<[argOpts[1] EXCEPT !.Strict = TRUE]>>)
     IN retCLLI = strict.c /\ retErr = strict.err

\* C20: every record a successful Parse returns passes its own component
\* validators: ValidatePlace(), ValidateRegion(), ValidateNetworkSite() and
\* ValidateEntityCode() return true, an empty entity code being valid,
\* whatever the shape of the record.
C20_RecordPassesItsValidators ==
  (call = "Parse" /\ Succeeded) =>
     /\ CLLI_ValidatePlace(retCLLI[1])
     /\ CLLI_ValidateRegion(retCLLI[1])
     /\ CLLI_ValidateNetworkSite(retCLLI[1])
     /\ CLLI_ValidateEntityCode(retCLLI[1])

-----------------------------------------------------------------------------
(* Properties of the records and of the failures *)

\* C21: every record of shape Entity that Parse returns has a network site
\* of exactly 2 digits; only NonBuilding and Customer records carry a
\* network site holding letters.
C21_EntitySiteIsDigits ==
  (call = "Parse" /\ Succeeded /\ Type(retCLLI[1]) = CLLITypeEntity) =>
     /\ Len(retCLLI[1].NetworkSite) = 2
     /\ isDigits(retCLLI[1].NetworkSite)

\* C22: every record Parse or ParseWithOptions returns, under any
\* configuration, has a place of 4 letters and a region of exactly 2 letters
\* that is one of the recognized region codes.
C22_PlaceAndRegionOfRecord ==
  (call \in {"Parse", "ParseWithOptions"} /\ Succeeded) =>
     /\ Len(retCLLI[1].Place) = 4 /\ isAlpha(retCLLI[1].Place)
     /\ retCLLI[1].Region \in USRegions \cup CanadianRegions

\* the sentinel each reported field wraps
SentinelOf(field) ==
  CASE field = "input" -> ErrEmptyInput
    [] field = "length" -> ErrInvalidCLLI
    [] field = "characters" -> ErrInvalidCLLI
    [] field = "place" -> ErrInvalidPlace
    [] field = "region" -> ErrInvalidRegion
    [] field = "entity_code" -> ErrInvalidEntity
    [] OTHER -> "no sentinel"

\* C23: every failure of Parse or ParseWithOptions returns no record and an
\* error that wraps a ParseError whose Input is the input exactly as
\* received, names the failed field and matches, by errors.Is, the sentinel
\* of that field: ErrEmptyInput for input, ErrInvalidCLLI for length and
\* characters, ErrInvalidPlace for place, ErrInvalidRegion for region,
\* ErrInvalidEntity for entity_code; the error text holds the input as
\* received.  A call returns a record or an error, never both or neither.
C23_FailureIsStructured ==
  call \in {"Parse", "ParseWithOptions"} =>
     /\ retCLLI = <<>> <=> retErr # <<>>
     /\ retErr # <<>> =>
          /\ retErr[1].Input = arg
          /\ retErr[1].Prefix = arg
          /\ Is(retErr, SentinelOf(retErr[1].Field))

\* an identifier that is not in normalized form failed for its entity code,
\* and the error holds the string as received, not as normalized
C23_Witness ==
  /\ call = "Parse" /\ retErr # <<>>
  /\ arg # NormalizedArg /\ retErr[1].Input = arg
  /\ retErr[1].Field = "entity_code" /\ Is(retErr, ErrInvalidEntity)

\* the first 4 characters of a normalized string are not 4 letters
PlaceInvalid(s) == ~isAlpha(Slice(s, 0, 4))

\* a normalized string holds a region, and it is no recognized region code
RegionInvalid(s) ==
  /\ Len(s) > 4
  /\ Len(s) < 6 \/ Slice(s, 4, 6) \notin USRegions \cup CanadianRegions

\* C25: failures are reported in a fixed precedence: for an input of valid
\* length and alphabet an invalid place is reported (field place) even if
\* the region or the entity code is invalid too; an invalid region is
\* reported (field region) before any defect of the trailing segment; an
\* entity-code violation is reported only for inputs whose place and region
\* are valid and whose shape was classified as Entity.
C25_FailurePrecedence ==
  (call \in {"Parse", "ParseWithOptions"} /\ ~Blank(arg)
     /\ ~LengthOutOfRange(Len(NormalizedArg), ActiveOptions.Strict)
     /\ ~HasInvalidCharacter(NormalizedArg)) =>
     /\ PlaceInvalid(NormalizedArg) => FailedWith("place", ErrInvalidPlace)
     /\ (~PlaceInvalid(NormalizedArg) /\ RegionInvalid(NormalizedArg))
           => FailedWith("region", ErrInvalidRegion)
     /\ FailedWith("entity_code", ErrInvalidEntity) =>
           /\ ~PlaceInvalid(NormalizedArg) /\ ~RegionInvalid(NormalizedArg)
           /\ classify(newCLLI(NormalizedArg), NormalizedArg).cliType
                = CLLITypeEntity

\* an identifier whose place, region and entity code are all invalid failed
\* for its place
C25_Witness ==
  /\ call = "Parse" /\ Len(arg) = 11 /\ arg = NormalizedArg
  /\ PlaceInvalid(arg) /\ RegionInvalid(arg)
  /\ isDigits(Slice(arg, 6, 8))
  /\ validateEntityCode(SliceFrom(arg, 8)) # NoError
  /\ FailedWith("place", ErrInvalidPlace)

\* the trailing payloads of a record that hold something
PopulatedPayloads(c) ==
  {p \in {"entity", "location", "customer"} :
     \/ p = "entity" /\ (c.NetworkSite # <<>> \/ c.EntityCode # <<>>)
     \/ p = "location" /\ (c.LocationCode # <<>> \/ c.LocationID # <<>>)
     \/ p = "customer" /\ (c.CustomerCode # <<>> \/ c.CustomerID # <<>>)}

\* the payload the shape selects
PayloadOf(t) ==
  CASE t = CLLITypeEntity -> "entity"
    [] t = CLLITypeNonBuilding -> "location"
    [] t = CLLITypeCustomer -> "customer"
    [] OTHER -> "none"

\* C26 as stated: in every record Parse returns exactly one trailing payload
\* is populated, the one its shape selects: networkSite/entityCode for
\* Entity, locationCode/locationId for NonBuilding, customerCode/customerId
\* for Customer.
C26_PayloadSelectedByShape ==
  (call = "Parse" /\ Succeeded) =>
     PopulatedPayloads(retCLLI[1]) = {PayloadOf(Type(retCLLI[1]))}

\* C26 as amended: in every record Parse returns exactly one trailing
\* payload is populated; it is the one its shape selects, except that the
\* NonBuilding record of an 8-character identifier holds the network site
\* alone, and the Customer record of a 15-character identifier with a
\* 2-digit network site holds the network site and the 7-character code.
C26_PayloadSelectedByShapeOrSite ==
  (call = "Parse" /\ Succeeded) =>
     LET c == retCLLI[1]
         n == Len(NormalizedArg)
         siteOnly == Type(c) = CLLITypeNonBuilding /\ n = 8
         longForm ==
           /\ Type(c) = CLLITypeCustomer /\ n = 15
           /\ isDigits(Slice(NormalizedArg, 6, 8))
     IN /\ Cardinality(PopulatedPayloads(c)) = 1
        /\ (~siteOnly /\ ~longForm) => PopulatedPayloads(c) = {PayloadOf(Type(c))}
        /\ siteOnly => c.NetworkSite = Slice(NormalizedArg, 6, 8) /\ c.EntityCode = <<>>
        /\ longForm => /\ c.NetworkSite = Slice(NormalizedArg, 6, 8)
                       /\ c.EntityCode = Slice(NormalizedArg, 8, 15)

\* a 15-character identifier beginning with a letter and 8 digits after the
\* region was parsed to a NonBuilding record holding the location payload
C26_Witness ==
  /\ call = "Parse" /\ Succeeded /\ Len(NormalizedArg) = 15
  /\ Type(retCLLI[1]) = CLLITypeNonBuilding
  /\ PopulatedPayloads(retCLLI[1]) = {"location"}
  /\ Len(retCLLI[1].LocationID) = 8

-----------------------------------------------------------------------------
(* Properties of the classification *)

\* the class of a character of a normalized string: digit or letter
ClassOf(ch) == IF ch \in Digits THEN "D" ELSE "L"

\* the classes of the characters after position 6
Signature(s) == [i \in 1..(Len(s) - 6) |-> ClassOf(s[i + 6])]

\* the shape as a function of the signature alone
ShapeOfSignature(sig) ==
  LET n == Len(sig)
      digitsFrom(k) == \A i \in k..n : sig[i] = "D"
      twoDigits == n >= 2 /\ sig[1] = "D" /\ sig[2] = "D"
  IN IF n = 9 /\ twoDigits THEN CLLITypeCustomer
     ELSE IF n = 5 /\ twoDigits THEN CLLITypeEntity
     ELSE IF n >= 5 /\ sig[1] = "L" /\ digitsFrom(2) THEN CLLITypeNonBuilding
     ELSE IF n >= 5 /\ sig[1] = "D" /\ sig[2] = "L" /\ digitsFrom(3)
          THEN CLLITypeCustomer
     ELSE IF n = 2 /\ twoDigits THEN CLLITypeNonBuilding
     ELSE CLLITypeEntity

\* C27: classification is a deterministic function of the length and the
\* letter/digit classes of the remainder: the shape of every record Parse
\* returns is the value, at the signature of the characters after position
\* 6, of one function of signatures, so two inputs of the same signature on
\* which Parse succeeds have the same shape; and the shape is never Unknown.
C27_ShapeIsFunctionOfSignature ==
  (call = "Parse" /\ Succeeded) =>
     /\ Type(retCLLI[1]) = ShapeOfSignature(Signature(NormalizedArg))
     /\ Type(retCLLI[1]) # CLLITypeUnknown

\* an identifier of signature digit, letter, 3 digits was parsed to a
\* Customer record
C27_Witness ==
  /\ call = "Parse" /\ Succeeded
  /\ Signature(NormalizedArg) = <<"D", "L", "D", "D", "D">>
  /\ Type(retCLLI[1]) = CLLITypeCustomer

C30_NoSiteOrLocationFailure ==
  (call \in {"Parse", "ParseWithOptions"} /\ retErr # <<>>) =>
     /\ retErr[1].Field \in
          {"input", "length", "characters", "place", "region", "entity_code"}
     /\ ~Is(retErr, ErrInvalidSite)
     /\ ~Is(retErr, ErrInvalidLocation)

\* an identifier whose network site is a letter and a digit passed the
\* network-site check and was parsed
C30_Witness ==
  /\ call = "Parse" /\ Succeeded
  /\ retCLLI[1].NetworkSite = <<"M", "1">>
  /\ validateNetworkSite(retCLLI[1].NetworkSite) # NoError

-----------------------------------------------------------------------------
(* Goroutines that call ParseWithOptions and the methods of the record it  *)
(* returned, as the goroutines of TestConcurrentParsing do.  A step ends  *)
(* where the call has written to the heap or is about to read from it: the *)
(* parameters and the local variables of a call are its own.              *)

\* &ParseOptions{StrictValidation: false}, the options of TestConcurrentParsing
testOptions ==
  <<[Strict |-> FALSE, StrictValidation |-> FALSE,
     NormalizeCase |-> FALSE, TrimWhitespace |-> FALSE]>>

\* the strings of TestConcurrentParsing
testCLLIs ==
  { <<"M","P","L","S","M","N","B","1","2","3","4">>,
    <<"N","Y","C","M","N","Y","J","5","6","7","8">>,
    <<"M","P","L","S","M","N","1","A","2","3","4">> }

\* the calls the goroutines make: those of TestConcurrentParsing, and with
\* nil options and with the options of the test a string in lower case after
\* a space, and with nil options a string with a bad entity code, one with
\* an unknown region and the empty string
ConcurrentCalls ==
  {[clli |-> c, opts |-> testOptions] : c \in testCLLIs}
    \cup {[clli |-> <<" ","m","p","l","s","m","n","0","1","d","s","0">>,
           opts |-> o] : o \in {<<>>, testOptions}}
    \cup {[clli |-> c, opts |-> <<>>] :
            c \in { <<"M","P","L","S","M","N","0","1","D","S","X","9">>,
                    <<"M","P","L","S","Z","Z","0","1","D","S","0">>,
                    <<>> }}

\* allocate handing out one object, the same for every call
allocate_pooled(frames) ==
  CHOOSE a \in Addresses : \A b \in Addresses : a <= b

\* the address of the object "result := &CLLI{...}" creates: the address of
\* no object a goroutine still holds
allocate(frames) ==
  LET held == {frames[g].result : g \in Goroutines}
  IN CHOOSE a \in Addresses \ held : \A b \in Addresses \ held : a <= b

\* "getCountryCode returns the ISO 3166-1 alpha-2 country code for a region"
getCountryCode(region) ==
  IF region \in usStates THEN "US"
  ELSE IF region \in canadianProvinces THEN "CA"
  ELSE ""

\* "getCityName returns the city name for a place code and region combination"
getCityName(place, region) ==
  LET normalizedPlace == TrimRightSpaces(place)
      found == {m \in cityMappings :
                  m.place = normalizedPlace /\ m.region = region}
  IN IF found # {} THEN (CHOOSE m \in found : TRUE).city ELSE ""

\* (c *CLLI) CountryCode
CountryCode(c) == getCountryCode(c.Region)

\* (c *CLLI) CityName
CityName(c) == getCityName(c.Place, c.Region)

\* what the methods a goroutine calls on a record return
methodResults(c) ==
  [String |-> String(c), Type |-> Type(c),
   IsEntityCLLI |-> CLLI_IsEntityCLLI(c),
   CityName |-> CityName(c), CountryCode |-> CountryCode(c)]

\* the goroutines start with the package initialized and no call made
ConcurrentInit ==
  /\ arg = <<>>
  /\ argOpts = <<>>
  /\ argStrict = <<>>
  /\ call = "none"
  /\ retCLLI = <<>>
  /\ retErr = <<>>
  /\ retBool = <<>>
  /\ retValidation = <<>>
  /\ PackageInitialized

\* a goroutine calls ParseWithOptions: the default options for nil, the
\* check for the empty input, the preprocessing, and the checks of the
\* length, the characters, the place, the region and the network site, all
\* made on the parameters and the local variables of the call
Enter ==
  \E g \in Goroutines, c \in ConcurrentCalls :
    /\ pc[g] = "idle"
    /\ LET clli == c.clli
           opts == c.opts
           o == optionsOrDefault(opts)
           input == preprocess(clli, o)
           failure ==
             IF isEmptyInput(clli)
             THEN <<Failure(clli, 0, "input", ErrEmptyInput)>>
             ELSE IF lengthViolation(input, o)
             THEN <<Failure(clli, 0, "length", ErrInvalidCLLI)>>
             ELSE IF firstInvalidCharacter(input) # -1
             THEN <<Failure(clli, firstInvalidCharacter(input), "characters",
                            ErrInvalidCLLI)>>
             ELSE IF validatePlace(placeForValidation(input)) # NoError
             THEN <<Failure(clli, 0, "place", ErrInvalidPlace)>>
             ELSE IF Len(input) > 4
                       /\ validateRegion(regionForValidation(input)) # NoError
             THEN <<Failure(clli, 4, "region", ErrInvalidRegion)>>
             ELSE IF networkSiteCheck(input) # NoError
             THEN <<Failure(clli, 6, "network_site", ErrInvalidSite)>>
             ELSE <<>>
       IN IF failure # <<>>
          THEN /\ frame' = [frame EXCEPT ![g] =
                    [NoFrame EXCEPT !.clli = clli, !.opts = opts,
                                    !.ret = failure]]
               /\ pc' = [pc EXCEPT ![g] = "returned"]
          ELSE /\ frame' = [frame EXCEPT ![g] =
                    [NoFrame EXCEPT !.clli = clli, !.opts = opts,
                                    !.input = input]]
               /\ pc' = [pc EXCEPT ![g] = "validated"]
    /\ UNCHANGED <<heap, usStates, canadianProvinces, cityMappings, svars>>

\* "Create CLLI instance with base fields": result := &CLLI{...}
Create ==
  \E g \in Goroutines :
    /\ pc[g] = "validated"
    /\ LET result == allocate(frame)
       IN /\ heap' = [heap EXCEPT ![result] = newCLLI(frame[g].input)]
          /\ frame' = [frame EXCEPT ![g].result = result]
    /\ pc' = [pc EXCEPT ![g] = "created"]
    /\ UNCHANGED <<usStates, canadianProvinces, cityMappings, svars>>

\* "Now determine the type and populate type-specific fields": the writes
\* through result
Classify ==
  \E g \in Goroutines :
    /\ pc[g] = "created"
    /\ heap' = [heap EXCEPT ![frame[g].result] = classify(@, frame[g].input)]
    /\ pc' = [pc EXCEPT ![g] = "classified"]
    /\ UNCHANGED <<frame, usStates, canadianProvinces, cityMappings, svars>>

\* "Post-classification validation for entity codes only", and the return;
\* the object of a failed call is held by nobody and is reclaimed
Return ==
  \E g \in Goroutines :
    /\ pc[g] = "classified"
    /\ IF entityCodeViolation(heap[frame[g].result])
       THEN /\ frame' = [frame EXCEPT
                 ![g].ret = <<Failure(frame[g].clli, 8, "entity_code",
                                      ErrInvalidEntity)>>,
                 ![g].result = nil]
            /\ heap' = [heap EXCEPT ![frame[g].result] = ZeroCLLI]
       ELSE /\ frame' = [frame EXCEPT
                 ![g].ret = <<[c |-> <<frame[g].result>>, err |-> <<>>]>>]
            /\ heap' = heap
    /\ pc' = [pc EXCEPT ![g] = "returned"]
    /\ UNCHANGED <<usStates, canadianProvinces, cityMappings, svars>>

\* the goroutine calls String, Type, IsEntityCLLI, CityName and CountryCode
\* on the record it got
UseRecord ==
  \E g \in Goroutines :
    /\ pc[g] = "returned"
    /\ frame[g].ret[1].c # <<>>
    /\ frame' = [frame EXCEPT
         ![g].seen = <<methodResults(heap[frame[g].ret[1].c[1]])>>]
    /\ pc' = [pc EXCEPT ![g] = "used"]
    /\ UNCHANGED <<heap, usStates, canadianProvinces, cityMappings, svars>>

\* the goroutine goes on to its next iteration: it holds the record and the
\* error no longer, and the record is reclaimed
Drop ==
  \E g \in Goroutines :
    /\ pc[g] \in {"returned", "used"}
    /\ heap' = IF frame[g].result # nil
               THEN [heap EXCEPT ![frame[g].result] = ZeroCLLI]
               ELSE heap
    /\ frame' = [frame EXCEPT ![g] = NoFrame]
    /\ pc' = [pc EXCEPT ![g] = "idle"]
    /\ UNCHANGED <<usStates, canadianProvinces, cityMappings, svars>>

ConcurrentNext ==
  \/ Enter
  \/ Create
  \/ Classify
  \/ Return
  \/ UseRecord
  \/ Drop

ConcurrentSpec == ConcurrentInit /\ [][ConcurrentNext]_vars

\* C24: Parse calls are independent under concurrency: in any interleaving
\* of ParseWithOptions calls and record method calls, each call returns what
\* it returns when it runs alone, no call writes memory another call uses
\* (no two calls hold the same record), and the package-level maps are only
\* read.
C24_CallsAreIndependent ==
  /\ \A g \in Goroutines :
       LET alone == ParseWithOptions(frame[g].clli, frame[g].opts)
           ret == frame[g].ret[1]
       IN /\ pc[g] \in {"returned", "used"} =>
               /\ ret.err = alone.err
               /\ (ret.c = <<>>) = (alone.c = <<>>)
               /\ ret.c # <<>> => heap[ret.c[1]] = alone.c[1]
          /\ pc[g] = "used" => frame[g].seen = <<methodResults(alone.c[1])>>
  /\ \A g, h \in Goroutines :
       (g # h /\ frame[g].result # nil) => frame[g].result # frame[h].result
  /\ usStates = USRegions
  /\ canadianProvinces = CanadianRegions
  /\ cityMappings = CityMappings

\* one goroutine has its record and the results of the methods while
\* another, parsing another string, is between creating its record and
\* returning it
C24_Witness ==
  \E g, h \in Goroutines :
    /\ pc[g] = "used" /\ pc[h] \in {"created", "classified"}
    /\ frame[g].clli # frame[h].clli
    /\ frame[g].seen[1].CityName = "Minneapolis"

====
